---- MODULE Spec2Model ----
(***************************************************************************)
(* Model of MarketplacesPricesBot: the chat front end (bot.py) and the     *)
(* three marketplace parsers (ozon.py, yandexmarket.py, wildberries.py).   *)
(*                                                                         *)
(* Strings are sequences of one-character strings, so that lower(),        *)
(* replace('"', ''), split() and split('-') are computed as Python does.   *)
(* The Cyrillic words of yandexmarket.py:74 are written in Latin letters:  *)
(* 'матрац' is <<"m","a","t","r","a","c">> and 'к' is <<"k">>.             *)
(* A Python dict is a sequence of [k, v] records in insertion order.       *)
(***************************************************************************)
EXTENDS Integers, Sequences, FiniteSets, TLC

VARIABLES
    \* ---- bot.py ----
    key_words_global,   \* module-level key_words of bot.py
    sent,               \* per chat user: the query texts the user has sent to this process
    sessions,           \* the run_parser calls made by handle_shop, in order
    \* ---- the run_parser tasks of one process and their table files ----
    tasks,              \* per task: where its run_parser is, and its table_path
    files,              \* the table files on disk: path -> the task that wrote the file
    now,                \* the second dt.now() shows
    \* ---- get_html_of_the_page for the results pages of one session ----
    scroll_pc,          \* position in get_html_of_the_page and the loading loop
    to_load,            \* how many results pages the session loads
    loading,            \* which of them it is loading
    body,               \* document.body of the page in the driver: how high it gets, or that it never stops growing
    last_height,        \* local last_height of the scroll loop
    \* ---- keyword matching of one candidate ----
    mShop, mQuery, mName, mFlag, mDone,
    \* ---- one parser session ----
    pc,                     \* position of run_parser
    shop,                   \* which parser class runs
    key_words,              \* self.key_words
    full_prices_list,       \* self.full_prices_list
    discount_prices_list,   \* self.discount_prices_list
    discounts_list,         \* self.discounts_list
    products_list,          \* self.products_list / self.product_cards
    products_on_page,       \* local products_on_page of get_products_on_page
    accepted,               \* every product that passed all filters, in order
    last,                   \* locals of the loop iteration that ran last
    limit,                  \* how many products the search results hold at most
    page,                   \* loop variable of get_all_products_in_search_result
    requested,              \* page numbers requested from the search API, in order
    emptyPages,             \* pages that parsed to an empty product list
    failedPages,            \* pages whose request or decoding raised
    outcome,                \* what run_parser reported at its end
    \* ---- the same session: resources and what the chat receives ----
    driver,                 \* self.driver: "none", "open" or "quit"
    quits,                  \* how often self.driver.quit() was called
    pages_info,             \* pages_info / self.pages_data: per page, whether its html is loaded
    page_num,               \* loop variable of the page loops of run_parser
    chat,                   \* what the session sent to the chat, in order
    artifact,               \* the exported table file: "none", "exists" or "deleted"
    sales,                  \* the 'Продано' field of the cards that have one, in card order
    error,                  \* why run_parser ended early, "none" when it did not
    \* ---- the same session: what it met and did, for the claims ----
    control,                \* the pagination control found on the first page
    loads,                  \* numbers of the further results pages whose load was tried, in order
    parsed                  \* numbers of the pages given to parse_page_content, in order

botVars   == <<key_words_global, sent, sessions>>
taskVars  == <<tasks, files, now>>
scrollVars == <<scroll_pc, to_load, loading, body, last_height>>
matchVars == <<mShop, mQuery, mName, mFlag, mDone>>
histVars  == <<control, loads, parsed>>
runVars   == <<driver, quits, pages_info, page_num, chat, artifact, sales, error,
               histVars>>
sessVars  == <<pc, shop, key_words, full_prices_list, discount_prices_list,
               discounts_list, products_list, products_on_page, accepted,
               last, limit, page, requested, emptyPages, failedPages, outcome,
               runVars>>
vars      == <<botVars, taskVars, scrollVars, matchVars, sessVars>>
\* what no step of a parser session changes
others    == <<botVars, taskVars, scrollVars, matchVars, limit>>

----------------------------------------------------------------------------
(* Two run_parser tasks of the one bot process *)

\* handle_shop is a coroutine of the dispatcher: while one run_parser waits
\* at an await, the run_parser of another callback runs
Tasks == {"first", "second"}

\* The part of a table path that the time gives: none in Wildberries
NoTime == -1
NoPath == [key_word |-> <<>>, time |-> NoTime]
NoTask == [pc |-> "idle", shop |-> "", key_word |-> <<>>, table_path |-> NoPath,
           got |-> ""]

\* No page is in the driver
NoBody == [full |-> 0, endless |-> FALSE]

----------------------------------------------------------------------------
(* Bounds *)
MaxNamePieces  == 3
MaxQueryPieces == 2
MaxCandidates  == 2
MaxFilterCandidates == 4
MaxPrice       == 3
MaxSessions    == 2
MaxPages       == 3
MaxCrawlProducts == 10
MaxSecond      == 1
MaxHeight      == 3

(* Program constants *)
OZON   == "ozon"
YANDEX == "yandex_market"
WB     == "wildberries"
Shops  == {OZON, YANDEX, WB}

None == "None"

----------------------------------------------------------------------------
(* Python string operations *)

LowerChar(c) ==
    CASE c = "A" -> "a"
      [] c = "B" -> "b"
      [] c = "K" -> "k"
      [] OTHER   -> c

lower(s) == [i \in 1..Len(s) |-> LowerChar(s[i])]

IsQuote(c) == c = "\""

\* s.replace('"', '')
replace_quotes(s) == SelectSeq(s, LAMBDA c : ~IsQuote(c))

RECURSIVE SplitOn(_, _, _, _)
SplitOn(s, sep, cur, keepEmpty) ==
    LET flush == IF keepEmpty \/ cur # <<>> THEN <<cur>> ELSE <<>>
    IN  IF s = <<>> THEN flush
        ELSE IF Head(s) = sep
             THEN flush \o SplitOn(Tail(s), sep, <<>>, keepEmpty)
             ELSE SplitOn(Tail(s), sep, Append(cur, Head(s)), keepEmpty)

\* s.split(): split on runs of whitespace, no empty strings
split(s) == SplitOn(s, " ", <<>>, FALSE)

\* w.split('-'): empty strings are kept
split_hyphen(w) == SplitOn(w, "-", <<>>, TRUE)

\* for word in words: list_of_words += word.split('-')
RECURSIVE hyphen_split_all(_)
hyphen_split_all(words) ==
    IF words = <<>> THEN <<>>
    ELSE split_hyphen(Head(words)) \o hyphen_split_all(Tail(words))

\* x in list
In(x, list) == \E i \in 1..Len(list) : list[i] = x

\* run_parser: for word in key_word.lower().split(): self.key_words += word.split('-')
query_tokens(key_word) == hyphen_split_all(split(lower(key_word)))

\* for key_word in self.key_words: if key_word not in list_of_words: flag = False
all_key_words_in(kws, list_of_words) ==
    \A i \in 1..Len(kws) : In(kws[i], list_of_words)

MATRAC == <<"m", "a", "t", "r", "a", "c">>
K_WORD == <<"k">>

ozon_match(kws, full_name) ==
    LET words == split(replace_quotes(lower(full_name)))
    IN  all_key_words_in(kws, hyphen_split_all(words))

yandex_match(kws, full_name) ==
    LET words == split(replace_quotes(lower(full_name)))
        flag  == all_key_words_in(kws, hyphen_split_all(words))
    IN  ~(~flag \/ (In(MATRAC, words) /\ In(K_WORD, words)))

wildberries_match(kws, name) ==
    LET words == split(lower(name))
    IN  all_key_words_in(kws, hyphen_split_all(words))

keyword_match(s, kws, name) ==
    CASE s = OZON   -> ozon_match(kws, name)
      [] s = YANDEX -> yandex_match(kws, name)
      [] s = WB     -> wildberries_match(kws, name)

----------------------------------------------------------------------------
(* Inputs of the keyword-matching specification *)

NamePieces  == {<<"a">>, <<"B">>, <<" ">>, <<"-">>, <<"\"">>, MATRAC, K_WORD}
QueryPieces == {<<"a">>, <<"b">>, <<"K">>, <<" ">>, <<"-">>}

RECURSIVE ConcatUpTo(_, _)
ConcatUpTo(pieces, n) ==
    IF n = 0 THEN {<<>>}
    ELSE LET prev == ConcatUpTo(pieces, n - 1)
         IN  prev \cup {p \o x : p \in prev, x \in pieces}

NamePool  == ConcatUpTo(NamePieces, MaxNamePieces)
\* run_parser asks for another query when it is given an empty one
QueryPool == ConcatUpTo(QueryPieces, MaxQueryPieces) \ {<<>>}

----------------------------------------------------------------------------
(* Python dicts and the arithmetic of the parsers *)

dict_set_keep_first(d, k, v) ==
    IF \E i \in 1..Len(d) : d[i].k = k THEN d
    ELSE Append(d, [k |-> k, v |-> v])

\* d[k] = v: a present key keeps its position, a new key goes last
dict_set(d, k, v) ==
    IF \E i \in 1..Len(d) : d[i].k = k
    THEN [i \in 1..Len(d) |-> IF d[i].k = k THEN [k |-> k, v |-> v] ELSE d[i]]
    ELSE Append(d, [k |-> k, v |-> v])

keys(d) == {d[i].k : i \in 1..Len(d)}

\* d[k]
dict_get(d, k) == d[CHOOSE i \in 1..Len(d) : d[i].k = k].v

\* list(d.keys())[0]
first_key(d) == d[1].k

RECURSIVE SumSet(_)
SumSet(S) == IF S = {} THEN 0 ELSE LET x == CHOOSE x \in S : TRUE IN x + SumSet(S \ {x})

max_key_first(d) == d[1].k

\* max(d), min(d), sum(d) of a dict iterate its keys
max_key(d) == CHOOSE x \in keys(d) : \A y \in keys(d) : y <= x
min_key(d) == CHOOSE x \in keys(d) : \A y \in keys(d) : x <= y
sum_keys(d) == SumSet(keys(d))

\* int(a / b) for b > 0: float division, then truncation towards zero
int_div(a, b) == IF a >= 0 THEN a \div b ELSE -((-a) \div b)

\* int(sum(d) / len(d))
middle(d) == int_div(sum_keys(d), Len(d))

MaxOf(S) == CHOOSE x \in S : \A y \in S : y <= x
MinOf(S) == CHOOSE x \in S : \A y \in S : x <= y

middle_discount_price_fixed(dpl) == MaxPrice

\* if self.discount_prices_list: int(sum / len) else: 0
middle_discount_price(dpl) == IF dpl # <<>> THEN middle(dpl) ELSE 0

is_outlier_above(discount_price, mdp, percent) ==
    mdp # 0 /\ 100 * discount_price < percent * mdp

\* middle_discount_price and discount_price + factor * middle_discount_price
\*   < middle_discount_price, with factor = percent / 100
is_outlier(discount_price, mdp, percent) ==
    mdp # 0 /\ 100 * discount_price + percent * mdp < 100 * mdp

OZON_FACTOR   == 51
YANDEX_FACTOR == 41

----------------------------------------------------------------------------
(* One candidate of a rendered results page (Ozon, Yandex Market) *)

\* A price token whose text is no number
NaN == -1

Prices == 0..MaxPrice

Verdict(v, d) == [verdict |-> v, d |-> d]

\* The numbers of the price tokens the adapter reads; {} when int() raises or
\* no token is left, and then max(prices) raises.
\* ozon.py:81 converts the first two spans with int(); yandexmarket.py:80
\* keeps the tokens that are digits and converts those.
ozon_prices(tokens) ==
    LET two == SubSeq(tokens, 1, IF Len(tokens) < 2 THEN Len(tokens) ELSE 2)
    IN  IF two = <<>> \/ \E i \in 1..Len(two) : two[i] = NaN
        THEN {}
        ELSE {two[i] : i \in 1..Len(two)}

yandex_prices(tokens) ==
    LET digits == SelectSeq(tokens, LAMBDA t : t # NaN)
    IN  {digits[i] : i \in 1..Len(digits)}

\* What one iteration of the candidate loop decides, before it records anything
rendered_verdict(s, kws, dpl, c) ==
    IF ~keyword_match(s, kws, c.name) THEN Verdict("nomatch", -1)
    ELSE LET prices == IF s = OZON THEN ozon_prices(c.tokens)
                                   ELSE yandex_prices(c.tokens)
         IN  IF prices = {} THEN Verdict("noprice", -1)
             ELSE LET discount_price == MinOf(prices)
                      factor == IF s = OZON THEN OZON_FACTOR ELSE YANDEX_FACTOR
                  IN  IF is_outlier(discount_price, middle_discount_price(dpl), factor)
                      THEN Verdict("outlier", discount_price)
                      ELSE IF c.enrich = "fail"
                           THEN Verdict("enrichdrop", discount_price)
                           ELSE Verdict("accepted", discount_price)

\* full_price, discount_price = max(prices), min(prices)
rendered_full_price(s, c) ==
    MaxOf(IF s = OZON THEN ozon_prices(c.tokens) ELSE yandex_prices(c.tokens))
rendered_discount_price(s, c) ==
    MinOf(IF s = OZON THEN ozon_prices(c.tokens) ELSE yandex_prices(c.tokens))

\* if full_price: self.full_prices_list[full_price] = link
record_full_price(fpl, full_price, link) ==
    IF full_price # 0 THEN dict_set(fpl, full_price, link) ELSE fpl

\* if discount_price: self.discount_prices_list[discount_price] = link
record_discount_price(dpl, discount_price, link) ==
    IF discount_price # 0 THEN dict_set(dpl, discount_price, link) ELSE dpl

record_discount_always(dl, discount, link) == dict_set(dl, discount, link)

\* if discount: self.discounts_list[discount] = link
record_discount(dl, discount, link) ==
    IF discount # 0 THEN dict_set(dl, discount, link) ELSE dl

Product(link, full_price, discount_price) ==
    [link |-> link, full_price |-> full_price, discount_price |-> discount_price]

\* The link of a candidate: one fresh link per product
NewLink == Len(accepted) + 1

----------------------------------------------------------------------------
(* One item of a Wildberries search page *)

\* int(item['priceU'] / 100), int(item['salePriceU'] / 100)
wb_full_price(item)     == int_div(item.priceU, 100)
wb_discount_price(item) == int_div(item.salePriceU, 100)

LastPage == 9

----------------------------------------------------------------------------
(* The end of run_parser: which result it reports *)

Stats(d) ==
    [max |-> max_key(d), middle |-> middle(d), min |-> min_key(d),
     link_at_max |-> dict_get(d, max_key(d)),
     link_at_min |-> dict_get(d, min_key(d))]

\* "Error": max() of an empty dict or [0] of an empty list raises, and the
\* exception leaves run_parser
summarize(dpl, fpl, dl) ==
    IF Len(dpl) > 1
    THEN IF fpl = <<>> \/ dl = <<>>
         THEN [kind |-> "Error"]
         ELSE [kind |-> "Summary", discount_price |-> Stats(dpl),
               full_price |-> Stats(fpl), discount |-> Stats(dl)]
    ELSE IF Len(dpl) = 1
         THEN IF fpl = <<>> \/ dl = <<>>
              THEN [kind |-> "Error"]
              ELSE [kind |-> "Single", discount_price |-> first_key(dpl),
                    full_price |-> first_key(fpl), discount |-> first_key(dl),
                    link |-> dict_get(dpl, first_key(dpl))]
         ELSE [kind |-> "Empty"]

----------------------------------------------------------------------------
(* Inputs of a session *)

SessQueries == {<<"a">>}
SessNames   == {<<"A">>, <<"b">>}

PriceTokens == Prices \cup {NaN}
TokenSeqs   == {<<>>} \cup {<<t>> : t \in PriceTokens}
                      \cup {<<t, u>> : t \in PriceTokens, u \in PriceTokens}

\* name: the listing's title; tokens: its price tokens; index: whether the
\* block's data-index attribute is a number (Yandex Market);
\* enrich: what the enrichment step meets
\*   "fail": Ozon: the load of the detail page raises (ozon.py:97);
\*           Yandex Market: skuId is a string that is no number
\*           (yandexmarket.py:98-99);
\*   "missing": the id or seller markup is missing, the inner try blocks
\*           leave None and the field keeps its '-';
\*   "ok": id and seller are found
Candidates == [name : SessNames, tokens : TokenSeqs, enrich : {"ok", "fail"},
               index : {"ok"}]

\* Inputs of the outlier-filter specification: listings that show one price
\* twice, so that only the discounted price varies
FilterCandidates == [name : SessNames, tokens : {<<t, t>> : t \in Prices},
                     enrich : {"ok"}, index : {"ok"}]

\* Inputs of the specification of a whole run of a rendered adapter: few
\* prices, and every kind of failure
RunCandidates == [name : SessNames,
                  tokens : {<<2, 1>>, <<3, 3>>, <<NaN>>, <<2>>, <<NaN, 2>>},
                  enrich : {"ok", "missing", "fail"}, index : {"ok", "bad"}]

\* priceU and salePriceU are in hundredths
PriceUs == {100 * p : p \in Prices} \cup {99}
Items   == [name : SessNames, priceU : PriceUs, salePriceU : PriceUs,
            shape : {"ok"}]

\* Inputs of the paging specification: one price pair, and items and
\* requests that fail
PageItems == [name : SessNames, priceU : {200}, salePriceU : {100},
              shape : {"ok", "broken"}]

----------------------------------------------------------------------------
(* A session: run_parser of one parser object *)

\* What the chat receives: the progress texts and the final results
LOADING    == "loading"       \* edit_text("Загружаю товары со страниц!")
PROCESSING == "processing"    \* edit_text("Обрабатываю товары!")
ITEM       == "item"          \* edit_text("Обработал товар №...")
Progress   == {LOADING, PROCESSING, ITEM}
Finals     == {"Summary", "Single", "Empty"}

\* card['Продано'] = 'нет данных'
NO_DATA == "no data"
QNT     == "qnt"

InitSessionVars ==
    /\ pc = "idle"
    /\ shop = None
    /\ key_words = <<>>
    /\ full_prices_list = <<>>
    /\ discount_prices_list = <<>>
    /\ discounts_list = <<>>
    /\ products_list = <<>>
    /\ products_on_page = <<>>
    /\ accepted = <<>>
    /\ last = Verdict("none", -1)
    /\ page = 1
    /\ requested = <<>>
    /\ emptyPages = {}
    /\ failedPages = {}
    /\ outcome = [kind |-> "none"]
    /\ driver = "none"
    /\ quits = 0
    /\ pages_info = <<>>
    /\ page_num = 1
    /\ chat = <<>>
    /\ artifact = "none"
    /\ sales = <<>>
    /\ error = "none"
    /\ control = [kind |-> "none", nums |-> <<>>]
    /\ loads = <<>>
    /\ parsed = <<>>

InitSession == InitSessionVars /\ limit = MaxCandidates

\* handle_shop creates the parser; run_parser splits the query into key_words
\* and sends the first progress text (ozon.py:148-149, yandexmarket.py:138-139,
\* wildberries.py:280-281)
StartSession(s, q) ==
    /\ pc = "idle"
    /\ shop' = s
    /\ key_words' = query_tokens(q)
    /\ chat' = Append(chat, LOADING)
    /\ pc' = IF s = WB THEN "wb_loop" ELSE "first_page"
    /\ UNCHANGED <<full_prices_list, discount_prices_list, discounts_list,
                   products_list, products_on_page, accepted, last,
                   page, requested, emptyPages, failedPages, outcome,
                   driver, quits, pages_info, page_num, artifact, sales, error,
                   histVars>>

\* The pagination control of the first page
\*   "absent": the page has none, the find chain meets None and raises;
\*   "malformed": the control is there but a link's text is no number or
\*      the nesting differs, which raises as well;
\*   "links": the control has the entries nums, the texts of its links in
\*      order: page numbers from 1 on, and NaN for a text that is no number
NoControl == [kind |-> "absent", nums |-> <<>>]
Controls ==
    {NoControl, [kind |-> "malformed", nums |-> <<>>],
     [kind |-> "links", nums |-> <<1, 2, NaN>>]}
        \cup {[kind |-> "links", nums |-> [i \in 1..n |-> i]] : n \in 0..MaxPages}

first_page_not_loaded == <<[k |-> 1, v |-> FALSE]>>

\* {1: (True, html)}
first_page_only == <<[k |-> 1, v |-> TRUE]>>

\* for el in s[1:]: numbers_and_links_dict[el[0]] = (False, el[1])
RECURSIVE set_links(_, _)
set_links(d, nums) ==
    IF nums = <<>> THEN d
    ELSE set_links(dict_set(d, Head(nums), FALSE), Tail(nums))

\* OzonParser.parse_amount_of_pages: int() of every link text in one try
parse_amount_of_pages(c) ==
    IF c.kind # "links" \/ \E i \in 1..Len(c.nums) : c.nums[i] = NaN
    THEN first_page_only
    ELSE IF Len(c.nums) > 1 THEN set_links(first_page_only, Tail(c.nums))
    ELSE first_page_only

\* try: num = int(text) except: continue
\* if num > 1 and num not in self.pages_data: self.pages_data[num] = (False, url)
RECURSIVE add_new_links(_, _)
add_new_links(d, nums) ==
    IF nums = <<>> THEN d
    ELSE LET num == Head(nums)
         IN  add_new_links(IF num # NaN /\ num > 1 /\ num \notin keys(d)
                           THEN dict_set(d, num, FALSE) ELSE d,
                           Tail(nums))

\* self.pages_data[1] = (True, first_page_html); YandexMarketParser.get_amount_of_pages
get_amount_of_pages(c) ==
    IF c.kind # "links" THEN first_page_only
    ELSE add_new_links(first_page_only, c.nums)

\* pages_info / self.pages_data after the first page was loaded
discovered_pages(s, c) ==
    IF s = OZON THEN parse_amount_of_pages(c) ELSE get_amount_of_pages(c)

\* The first get_html_of_the_page of run_parser and the page discovery
\*   "ok": the page loads; "fail": Driver() is built and driver.get or a
\*   script raises; "nodriver": Driver() itself raises.
\* On a failure run_parser prints a text to the console and returns.
fetch_first_page(r, c) ==
    /\ pc = "first_page"
    /\ IF r = "ok"
       THEN /\ driver' = "open"
            /\ control' = c
            /\ pages_info' = discovered_pages(shop, c)
            /\ page_num' = 1
            /\ pc' = "load_pages"
            /\ UNCHANGED error
       ELSE /\ driver' = IF r = "fail" THEN "open" ELSE driver
            /\ error' = "first_page"
            /\ pc' = "returned"
            /\ UNCHANGED <<pages_info, page_num, control>>
    /\ UNCHANGED <<shop, key_words, full_prices_list, discount_prices_list,
                   discounts_list, products_list, products_on_page, accepted,
                   last, page, requested, emptyPages, failedPages, outcome,
                   quits, chat, artifact, sales, loads, parsed>>

\* for page_num in pages_info: if not pages_info[page_num][0]: try: load
\* One iteration: a page that is loaded is passed over, a page that is not is
\* loaded, and a failure of the load leaves it unloaded.
load_page(r) ==
    /\ pc = "load_pages"
    /\ page_num <= Len(pages_info)
    /\ IF pages_info[page_num].v
       THEN UNCHANGED <<pages_info, loads>>
       ELSE /\ pages_info' = [pages_info EXCEPT ![page_num].v = (r = "ok")]
            /\ loads' = Append(loads, pages_info[page_num].k)
    /\ page_num' = page_num + 1
    /\ UNCHANGED <<pc, shop, key_words, full_prices_list, discount_prices_list,
                   discounts_list, products_list, products_on_page, accepted,
                   last, page, requested, emptyPages, failedPages, outcome,
                   driver, quits, chat, artifact, sales, error, control, parsed>>

\* The loading loop ends; run_parser sends the second progress text
start_processing ==
    /\ pc = "load_pages"
    /\ page_num > Len(pages_info)
    /\ chat' = Append(chat, PROCESSING)
    /\ page_num' = 1
    /\ pc' = "parse_pages"
    /\ UNCHANGED <<shop, key_words, full_prices_list, discount_prices_list,
                   discounts_list, products_list, products_on_page, accepted,
                   last, page, requested, emptyPages, failedPages, outcome,
                   driver, quits, pages_info, artifact, sales, error,
                   histVars>>

next_page_load_lazily(n) ==
    IF n < Len(pages_info) THEN [pc |-> "load_pages", page_num |-> n + 1]
    ELSE [pc |-> "aggregate", page_num |-> n]

\* The position after the parsing loop is done with page n
next_page(n) ==
    IF n < Len(pages_info) THEN [pc |-> "parse_pages", page_num |-> n + 1]
    ELSE [pc |-> "aggregate", page_num |-> n]

open_page_stop_at_unloaded(markup) ==
    /\ pc = "parse_pages"
    /\ IF ~pages_info[page_num].v
       THEN /\ pc' = "aggregate"
            /\ UNCHANGED <<page_num, error, parsed>>
       ELSE /\ parsed' = Append(parsed, pages_info[page_num].k)
            /\ IF markup = "nocontainer" /\ shop = OZON
               THEN /\ pc' = next_page(page_num).pc
                    /\ page_num' = next_page(page_num).page_num
                    /\ UNCHANGED error
               ELSE IF markup = "nocontainer"
               THEN /\ pc' = "raised"
                    /\ error' = "parse"
                    /\ UNCHANGED page_num
               ELSE /\ pc' = "parse"
                    /\ UNCHANGED <<page_num, error>>
    /\ UNCHANGED <<shop, key_words, full_prices_list, discount_prices_list,
                   discounts_list, products_list, products_on_page, accepted,
                   last, page, requested, emptyPages, failedPages, outcome,
                   driver, quits, pages_info, chat, artifact, sales,
                   control, loads>>

\* for page_num in pages_info: if pages_info[page_num][0]: parse_page_content
\* One iteration: a page that is not loaded is passed over; for a loaded page
\* parse_page_content starts with the lookup of the results container,
\* which raises when the markup has none ("nocontainer").
\* ozon.py:165-168 calls parse_page_content in a try, yandexmarket.py:159
\* does not.
open_page(markup) ==
    /\ pc = "parse_pages"
    /\ IF ~pages_info[page_num].v
       THEN /\ pc' = next_page(page_num).pc
            /\ page_num' = next_page(page_num).page_num
            /\ UNCHANGED <<error, parsed>>
       ELSE /\ parsed' = Append(parsed, pages_info[page_num].k)
            /\ IF markup = "nocontainer" /\ shop = OZON
               THEN /\ pc' = next_page(page_num).pc
                    /\ page_num' = next_page(page_num).page_num
                    /\ UNCHANGED error
               ELSE IF markup = "nocontainer"
               THEN /\ pc' = "raised"
                    /\ error' = "parse"
                    /\ UNCHANGED page_num
               ELSE /\ pc' = "parse"
                    /\ UNCHANGED <<page_num, error>>
    /\ UNCHANGED <<shop, key_words, full_prices_list, discount_prices_list,
                   discounts_list, products_list, products_on_page, accepted,
                   last, page, requested, emptyPages, failedPages, outcome,
                   driver, quits, pages_info, chat, artifact, sales,
                   control, loads>>

\* One iteration of the candidate loop of parse_page_content (Ozon, Yandex Market)
parse_page_content(c) ==
    /\ pc = "parse"
    /\ Len(accepted) < limit
    /\ IF shop = YANDEX /\ c.index = "bad"
       THEN \* int(products_block.get("data-index")) raises, outside the try
            /\ pc' = "raised"
            /\ error' = "parse"
            /\ last' = Verdict("raised", -1)
            /\ UNCHANGED <<full_prices_list, discount_prices_list, discounts_list,
                           products_list, accepted, chat>>
       ELSE LET v == rendered_verdict(shop, key_words, discount_prices_list, c)
            IN  /\ last' = v
                /\ UNCHANGED <<pc, error>>
                /\ IF v.verdict = "accepted"
                   THEN LET full_price     == rendered_full_price(shop, c)
                            discount_price == rendered_discount_price(shop, c)
                            link           == NewLink
                        IN  /\ full_prices_list' =
                                   record_full_price(full_prices_list, full_price, link)
                            /\ discount_prices_list' =
                                   record_discount_price(discount_prices_list, discount_price, link)
                            /\ discounts_list' =
                                   record_discount(discounts_list, full_price - discount_price, link)
                            /\ products_list' =
                                   Append(products_list, Product(link, full_price, discount_price))
                            /\ accepted' =
                                   Append(accepted, Product(link, full_price, discount_price))
                            \* ozon.py:124-125 edits the progress message again
                            /\ chat' = IF shop = OZON THEN Append(chat, ITEM) ELSE chat
                   ELSE UNCHANGED <<full_prices_list, discount_prices_list, discounts_list,
                                    products_list, accepted, chat>>
    /\ UNCHANGED <<shop, key_words, products_on_page, page, requested,
                   emptyPages, failedPages, outcome,
                   driver, quits, pages_info, page_num, artifact, sales,
                   histVars>>

\* parse_page_content returns; the page loop of run_parser goes on
FinishParsing ==
    /\ pc = "parse"
    /\ pc' = next_page(page_num).pc
    /\ page_num' = next_page(page_num).page_num
    /\ UNCHANGED <<shop, key_words, full_prices_list, discount_prices_list,
                   discounts_list, products_list, products_on_page, accepted,
                   last, page, requested, emptyPages, failedPages, outcome,
                   driver, quits, pages_info, chat, artifact, sales, error,
                   histVars>>

\* for page in range(1, 10): if self.add_data_from_page(url): break
\* The position and the loop variable after add_data_from_page returned ret
\* for page p (ret is TRUE for a returned True and FALSE for a returned None).
page_loop_no_break(ret, p) ==
    [pc |-> IF p < LastPage THEN "wb_loop" ELSE "aggregate", page |-> p + 1]

page_loop(ret, p) ==
    IF ret THEN [pc |-> "aggregate", page |-> p]
    ELSE [pc |-> IF p < LastPage THEN "wb_loop" ELSE "aggregate", page |-> p + 1]

\* add_data_from_page: requests.get(url).json()
\*   "ok": a payload with a product list; "empty": a falsy payload, for which
\*   get_products_on_page returns None and add_data_from_page True;
\*   "fail": the request, the decoding or the payload's shape raises, and
\*   add_data_from_page returns None
wb_request(resp) ==
    /\ pc = "wb_loop"
    /\ requested' = Append(requested, page)
    /\ products_on_page' = <<>>
    /\ CASE resp = "ok"    -> /\ pc' = "wb_page"
                              /\ UNCHANGED <<page, emptyPages, failedPages>>
         [] resp = "empty" -> /\ pc' = page_loop(TRUE, page).pc
                              /\ page' = page_loop(TRUE, page).page
                              /\ emptyPages' = emptyPages \cup {page}
                              /\ UNCHANGED failedPages
         [] resp = "fail"  -> /\ pc' = page_loop(FALSE, page).pc
                              /\ page' = page_loop(FALSE, page).page
                              /\ failedPages' = failedPages \cup {page}
                              /\ UNCHANGED emptyPages
    /\ UNCHANGED <<shop, key_words, full_prices_list, discount_prices_list,
                   discounts_list, products_list, accepted, last, outcome,
                   runVars>>

\* One iteration of the item loop of get_products_on_page
get_products_on_page(item) ==
    /\ pc = "wb_page"
    /\ Len(accepted) < limit
    /\ IF ~keyword_match(WB, key_words, item.name)
       THEN /\ last' = Verdict("nomatch", -1)
            /\ UNCHANGED <<pc, page, full_prices_list, discount_prices_list,
                           discounts_list, products_on_page, accepted>>
       ELSE IF item.shape = "broken"
       THEN \* a KeyError leaves get_products_on_page; add_data_from_page returns None
            /\ last' = Verdict("broken", -1)
            /\ pc' = page_loop(FALSE, page).pc
            /\ page' = page_loop(FALSE, page).page
            /\ products_on_page' = <<>>
            /\ UNCHANGED <<full_prices_list, discount_prices_list,
                           discounts_list, accepted>>
       ELSE LET full_price     == wb_full_price(item)
                discount_price == wb_discount_price(item)
                link           == NewLink
            IN  /\ last' = Verdict("accepted", discount_price)
                /\ products_on_page' =
                       Append(products_on_page, Product(link, full_price, discount_price))
                /\ full_prices_list' =
                       record_full_price(full_prices_list, full_price, link)
                /\ discount_prices_list' =
                       record_discount_price(discount_prices_list, discount_price, link)
                /\ discounts_list' =
                       record_discount(discounts_list, full_price - discount_price, link)
                /\ accepted' =
                       Append(accepted, Product(link, full_price, discount_price))
                /\ UNCHANGED <<pc, page>>
    /\ UNCHANGED <<shop, key_words, products_list, requested, emptyPages,
                   failedPages, outcome, runVars>>

\* get_products_on_page returns; add_data_from_page extends product_cards or
\* returns True, and then the page loop breaks
add_data_from_page ==
    /\ pc = "wb_page"
    /\ IF Len(products_on_page) > 0
       THEN /\ products_list' = products_list \o products_on_page
            /\ pc' = page_loop(FALSE, page).pc
            /\ page' = page_loop(FALSE, page).page
            /\ UNCHANGED emptyPages
       ELSE /\ pc' = page_loop(TRUE, page).pc
            /\ page' = page_loop(TRUE, page).page
            /\ emptyPages' = emptyPages \cup {page}
            /\ UNCHANGED products_list
    /\ products_on_page' = <<>>
    /\ UNCHANGED <<shop, key_words, full_prices_list, discount_prices_list,
                   discounts_list, accepted, last, requested, failedPages,
                   outcome, runVars>>

\* self.driver.quit(); self.driver = None (Ozon, Yandex Market)
driver_quit ==
    /\ pc = "aggregate"
    /\ shop # WB
    /\ driver' = "quit"
    /\ quits' = quits + 1
    /\ pc' = "export"
    /\ UNCHANGED <<shop, key_words, full_prices_list, discount_prices_list,
                   discounts_list, products_list, products_on_page, accepted,
                   last, page, requested, emptyPages, failedPages, outcome,
                   pages_info, page_num, chat, artifact, sales, error,
                   histVars>>

\* The position of get_sales_data after n of the cards have their field
sales_loop(n) == IF n < Len(products_list) THEN "sales" ELSE "export"

\* get_sales_data begins: the second progress text of Wildberries
begin_sales_data ==
    /\ pc = "aggregate"
    /\ shop = WB
    /\ chat' = Append(chat, PROCESSING)
    /\ pc' = sales_loop(0)
    /\ UNCHANGED <<shop, key_words, full_prices_list, discount_prices_list,
                   discounts_list, products_list, products_on_page, accepted,
                   last, page, requested, emptyPages, failedPages, outcome,
                   driver, quits, pages_info, page_num, artifact, sales, error,
                   histVars>>

SalesResponses == {"ok", "connect_timeout", "read_timeout", "malformed"}

\* One iteration of the card loop of get_sales_data
\*   "ok": card['Продано'] = response[0]['qnt'];
\*   "connect_timeout": requests.ConnectTimeout, card['Продано'] = 'нет данных';
\*   "read_timeout", "malformed": another exception, which no except clause
\*   of get_sales_data names; it leaves the loop and run_parser passes over it
get_sales_data(r) ==
    /\ pc = "sales"
    /\ CASE r = "ok" ->
              /\ sales' = Append(sales, QNT)
              /\ pc' = sales_loop(Len(sales) + 1)
         [] r = "connect_timeout" ->
              /\ sales' = Append(sales, NO_DATA)
              /\ pc' = sales_loop(Len(sales) + 1)
         [] OTHER ->
              /\ pc' = "export"
              /\ UNCHANGED sales
    /\ UNCHANGED <<shop, key_words, full_prices_list, discount_prices_list,
                   discounts_list, products_list, products_on_page, accepted,
                   last, page, requested, emptyPages, failedPages, outcome,
                   driver, quits, pages_info, page_num, chat, artifact, error,
                   histVars>>

\* table_path = save_to_excel(...)
save_to_excel ==
    /\ pc = "export"
    /\ artifact' = "exists"
    /\ pc' = "report"
    /\ UNCHANGED <<shop, key_words, full_prices_list, discount_prices_list,
                   discounts_list, products_list, products_on_page, accepted,
                   last, page, requested, emptyPages, failedPages, outcome,
                   driver, quits, pages_info, page_num, chat, sales, error,
                   histVars>>

\* run_parser from the statistics to message.delete()
\*   send: whether answer_document / answer succeeds or raises;
\*   del:  whether message.delete() succeeds or raises.
\* An exception of max(), [0], the send or the delete leaves run_parser.
report(send, del) ==
    /\ pc = "report"
    /\ LET result == summarize(discount_prices_list, full_prices_list, discounts_list)
       IN  IF result.kind = "Error"
           THEN /\ pc' = "raised"
                /\ error' = "summarize"
                /\ UNCHANGED <<outcome, chat>>
           ELSE IF send = "fail"
           THEN /\ pc' = "raised"
                /\ error' = "deliver"
                /\ UNCHANGED <<outcome, chat>>
           ELSE /\ outcome' = result
                /\ chat' = Append(chat, result.kind)
                /\ IF del = "fail"
                   THEN pc' = "raised" /\ error' = "deliver"
                   ELSE pc' = "remove" /\ UNCHANGED error
    /\ UNCHANGED <<shop, key_words, full_prices_list, discount_prices_list,
                   discounts_list, products_list, products_on_page, accepted,
                   last, page, requested, emptyPages, failedPages,
                   driver, quits, pages_info, page_num, artifact, sales,
                   histVars>>

\* try: remove(table_path) except Exception: pass
remove_table(r) ==
    /\ pc = "remove"
    /\ artifact' = IF r = "ok" THEN "deleted" ELSE artifact
    /\ pc' = "done"
    /\ UNCHANGED <<shop, key_words, full_prices_list, discount_prices_list,
                   discounts_list, products_list, products_on_page, accepted,
                   last, page, requested, emptyPages, failedPages, outcome,
                   driver, quits, pages_info, page_num, chat, sales, error,
                   histVars>>

----------------------------------------------------------------------------
(* bot.py: the handlers *)

Users == {"u1", "u2"}
Texts == {"lamp", "fan"}

InitBot ==
    /\ key_words_global = ""
    /\ sent = [u \in Users |-> {}]
    /\ sessions = <<>>
    /\ tasks = [t \in Tasks |-> NoTask]
    /\ files = <<>>
    /\ now = 0
    /\ scroll_pc = "idle"
    /\ to_load = 0
    /\ loading = 0
    /\ body = NoBody
    /\ last_height = 0

\* key_words = message.text
handle_product_description(u, text) ==
    /\ key_words_global' = text
    /\ sent' = [sent EXCEPT ![u] = @ \cup {text}]
    /\ UNCHANGED sessions

\* run_parser(key_words) of the parser the button names; the user presses a
\* button under one of the user's own query messages
handle_shop(u, s) ==
    /\ Len(sessions) < MaxSessions
    /\ sent[u] # {}
    /\ sessions' = Append(sessions,
                          [user |-> u, shop |-> s, key_word |-> key_words_global,
                           own |-> sent[u]])
    /\ UNCHANGED <<key_words_global, sent>>

----------------------------------------------------------------------------
(* Keyword matching of one candidate name against one query *)

InitMatch ==
    /\ mShop \in Shops
    /\ mQuery \in QueryPool
    /\ mName \in NamePool
    /\ mFlag = FALSE
    /\ mDone = FALSE

IdleMatch ==
    /\ mShop = None /\ mQuery = <<>> /\ mName = <<>>
    /\ mFlag = FALSE /\ mDone = FALSE

MatchCandidate ==
    /\ ~mDone
    /\ mDone' = TRUE
    /\ mFlag' = keyword_match(mShop, query_tokens(mQuery), mName)
    /\ UNCHANGED <<mShop, mQuery, mName>>

----------------------------------------------------------------------------
(* What the claims speak about *)

ToSet(seq) == {seq[i] : i \in 1..Len(seq)}

\* d maps k to link
Maps(d, k, link) == \E i \in 1..Len(d) : d[i].k = k /\ d[i].v = link

\* d has an entry that came from link
HasLink(d, link) == \E i \in 1..Len(d) : d[i].v = link

Discount(p) == p.full_price - p.discount_price

LastAccepted == accepted[Len(accepted)]

\* The products accepted before the candidate that ran last
AcceptedBefore ==
    IF last.verdict = "accepted" THEN SubSeq(accepted, 1, Len(accepted) - 1)
    ELSE accepted

\* The values of a metric over the accepted products that have an entry for it
FullPriceEntries     == {p.full_price : p \in ToSet(accepted)} \ {0}
DiscountPriceEntries == {p.discount_price : p \in ToSet(accepted)} \ {0}
DiscountEntries      == {Discount(p) : p \in ToSet(accepted)} \ {0}

Reported == pc = "done"

----------------------------------------------------------------------------
(* Specifications *)

Init == InitSession /\ InitBot /\ IdleMatch

\* The rest of run_parser after the page loops, when nothing fails
NextExport ==
    \/ driver_quit /\ UNCHANGED others
    \/ begin_sales_data /\ UNCHANGED others
    \/ get_sales_data("ok") /\ UNCHANGED others
    \/ save_to_excel /\ UNCHANGED others
    \/ report("ok", "ok") /\ UNCHANGED others
    \/ remove_table("ok") /\ UNCHANGED others

\* Search results of one page, and no request and no delivery fails
Next ==
    \/ \E s \in Shops, q \in SessQueries : StartSession(s, q) /\ UNCHANGED others
    \/ fetch_first_page("ok", NoControl) /\ UNCHANGED others
    \/ load_page("ok") /\ UNCHANGED others
    \/ start_processing /\ UNCHANGED others
    \/ open_page("ok") /\ UNCHANGED others
    \/ \E c \in Candidates : parse_page_content(c) /\ UNCHANGED others
    \/ FinishParsing /\ UNCHANGED others
    \/ \E r \in {"ok", "empty"} : wb_request(r) /\ UNCHANGED others
    \/ \E i \in Items : get_products_on_page(i) /\ UNCHANGED others
    \/ add_data_from_page /\ UNCHANGED others
    \/ NextExport

Spec == Init /\ [][Next]_vars

NextBot ==
    \/ \E u \in Users, t \in Texts :
           handle_product_description(u, t)
               /\ UNCHANGED <<sessVars, matchVars, taskVars, scrollVars>>
    \/ \E u \in Users, s \in Shops :
           handle_shop(u, s) /\ UNCHANGED <<sessVars, matchVars, taskVars, scrollVars>>

\* A Wildberries session that has sent its first progress text
InitWildberries ==
    /\ InitBot /\ IdleMatch
    /\ pc = "wb_loop"
    /\ shop = WB
    /\ key_words \in {query_tokens(q) : q \in SessQueries}
    /\ full_prices_list = <<>>
    /\ discount_prices_list = <<>>
    /\ discounts_list = <<>>
    /\ products_list = <<>>
    /\ products_on_page = <<>>
    /\ accepted = <<>>
    /\ last = Verdict("none", -1)
    /\ page = 1
    /\ requested = <<>>
    /\ emptyPages = {}
    /\ failedPages = {}
    /\ outcome = [kind |-> "none"]
    /\ driver = "none"
    /\ quits = 0
    /\ pages_info = <<>>
    /\ page_num = 1
    /\ chat = <<LOADING>>
    /\ artifact = "none"
    /\ sales = <<>>
    /\ error = "none"
    /\ control = [kind |-> "none", nums |-> <<>>]
    /\ loads = <<>>
    /\ parsed = <<>>

InitPages == InitWildberries /\ limit = MaxCandidates

\* A whole Wildberries run in which requests, items, the sales requests and
\* the delivery may fail
NextPages ==
    \/ \E r \in {"ok", "empty", "fail"} : wb_request(r) /\ UNCHANGED others
    \/ \E i \in PageItems : get_products_on_page(i) /\ UNCHANGED others
    \/ add_data_from_page /\ UNCHANGED others
    \/ begin_sales_data /\ UNCHANGED others
    \/ \E r \in SalesResponses : get_sales_data(r) /\ UNCHANGED others
    \/ save_to_excel /\ UNCHANGED others
    \/ \E send \in {"ok", "fail"}, del \in {"ok", "fail"} :
           report(send, del) /\ UNCHANGED others
    \/ \E r \in {"ok", "fail"} : remove_table(r) /\ UNCHANGED others

SpecPages == InitPages /\ [][NextPages]_vars

InitCrawl == InitWildberries /\ limit = MaxCrawlProducts

\* The page loop of Wildberries over search results that hold a matching
\* product for every page
NextCrawl ==
    \/ \E r \in {"ok", "empty"} : wb_request(r) /\ UNCHANGED others
    \/ \E i \in {i \in PageItems : i.shape = "ok"} :
           get_products_on_page(i) /\ UNCHANGED others
    \/ add_data_from_page /\ UNCHANGED others

SpecCrawl == InitCrawl /\ [][NextCrawl]_vars

InitFilter == InitSessionVars /\ limit = MaxFilterCandidates /\ InitBot /\ IdleMatch

NextFilter ==
    \/ \E s \in {OZON, YANDEX}, q \in SessQueries : StartSession(s, q) /\ UNCHANGED others
    \/ fetch_first_page("ok", NoControl) /\ UNCHANGED others
    \/ load_page("ok") /\ UNCHANGED others
    \/ start_processing /\ UNCHANGED others
    \/ open_page("ok") /\ UNCHANGED others
    \/ \E c \in FilterCandidates : parse_page_content(c) /\ UNCHANGED others
    \/ FinishParsing /\ UNCHANGED others
    \/ driver_quit /\ UNCHANGED others
    \/ save_to_excel /\ UNCHANGED others
    \/ report("ok", "ok") /\ UNCHANGED others
    \/ remove_table("ok") /\ UNCHANGED others

SpecFilter == InitFilter /\ [][NextFilter]_vars

\* A whole run of a rendered adapter (Ozon, Yandex Market) in which the page
\* loads, the markup, the candidates and the delivery may fail
NextRun ==
    \/ \E s \in {OZON, YANDEX}, q \in SessQueries : StartSession(s, q) /\ UNCHANGED others
    \/ \E r \in {"ok", "fail", "nodriver"}, c \in Controls :
           fetch_first_page(r, c) /\ UNCHANGED others
    \/ \E r \in {"ok", "fail"} : load_page(r) /\ UNCHANGED others
    \/ start_processing /\ UNCHANGED others
    \/ \E m \in {"ok", "nocontainer"} : open_page(m) /\ UNCHANGED others
    \/ \E c \in RunCandidates : parse_page_content(c) /\ UNCHANGED others
    \/ FinishParsing /\ UNCHANGED others
    \/ driver_quit /\ UNCHANGED others
    \/ save_to_excel /\ UNCHANGED others
    \/ \E send \in {"ok", "fail"}, del \in {"ok", "fail"} :
           report(send, del) /\ UNCHANGED others
    \/ \E r \in {"ok", "fail"} : remove_table(r) /\ UNCHANGED others

SpecRun == Init /\ [][NextRun]_vars

\* A whole run of any of the three adapters, with every kind of failure
InitAdapters == Init \/ InitPages

NextAdapters == NextRun \/ NextPages

SpecAdapters == InitAdapters /\ [][NextAdapters]_vars

SpecBot == Init /\ [][NextBot]_vars

InitMatching == InitSession /\ InitBot /\ InitMatch

NextMatch == MatchCandidate /\ UNCHANGED <<sessVars, botVars, taskVars, scrollVars>>

SpecMatch == InitMatching /\ [][NextMatch]_vars

----------------------------------------------------------------------------
(* Claims *)

\* C1: the query a session crawls (the key_word handle_shop passes to
\* run_parser) is a query text submitted by the user whose callback started
\* the session; another user's message never changes it.
C1_SessionCrawlsOwnQuery ==
    \A i \in 1..Len(sessions) : sessions[i].key_word \in sessions[i].own

\* C2: in every state of a session of any adapter, every accepted product
\* has discounted_price <= full_price, and the discount distribution holds
\* no negative key.
C2_DiscountedAtMostFull ==
    /\ \A p \in ToSet(accepted) : p.discount_price <= p.full_price
    /\ \A k \in keys(discounts_list) : k >= 0

\* C3 (as claimed): right after a product is accepted, the full-price
\* distribution maps its full price to its link and the discounted-price
\* distribution maps its discounted price to the same link, also when a
\* price is 0; the discount distribution maps a non-zero discount to the
\* link and gains no entry (no key 0) for a zero discount.
C3_AcceptedInAllDistributions ==
    last.verdict = "accepted" =>
        LET p == LastAccepted
        IN  /\ Maps(full_prices_list, p.full_price, p.link)
            /\ Maps(discount_prices_list, p.discount_price, p.link)
            /\ Discount(p) # 0 => Maps(discounts_list, Discount(p), p.link)
            /\ Discount(p) = 0 => /\ 0 \notin keys(discounts_list)
                                  /\ ~HasLink(discounts_list, p.link)

\* C3 (amended): right after a product is accepted, each of the three
\* distributions maps the product's value for its metric (full price,
\* discounted price, discount) to the product's link when that value is
\* non-zero, and gains no entry (no key 0) when that value is exactly 0.
C3_NonZeroValuesRecorded ==
    last.verdict = "accepted" =>
        LET p == LastAccepted
            Recorded(d, value) ==
                IF value # 0 THEN Maps(d, value, p.link)
                ELSE 0 \notin keys(d) /\ ~HasLink(d, p.link)
        IN  /\ Recorded(full_prices_list, p.full_price)
            /\ Recorded(discount_prices_list, p.discount_price)
            /\ Recorded(discounts_list, Discount(p))

\* C3 witness: a product was just accepted whose discounted price is 0 and
\* whose full price is not, and another whose discount is 0 came before it.
C3_Witness ==
    /\ last.verdict = "accepted"
    /\ Len(accepted) = 2
    /\ LastAccepted.discount_price = 0 /\ LastAccepted.full_price > 0
    /\ Discount(accepted[1]) = 0 /\ accepted[1].full_price > 0

KindByCount(n) == IF n = 0 THEN "Empty" ELSE IF n = 1 THEN "Single" ELSE "Summary"

\* Every accepted product has a non-zero full price, discounted price and
\* discount, and so an entry of its own making in each distribution
AllValuesNonZero ==
    \A p \in ToSet(accepted) :
        p.full_price # 0 /\ p.discount_price # 0 /\ Discount(p) # 0

\* C4: the kind of the terminal outcome is determined by the number of
\* accepted products: 0 gives EmptyResult, exactly 1 SingleResult, 2 or more
\* Summary, also when accepted products share a discounted price.  (Stated
\* for sessions whose accepted products all have non-zero values.)
C4_OutcomeKindByCount ==
    (Reported /\ AllValuesNonZero) => outcome.kind = KindByCount(Len(accepted))

\* C5: a reported SingleResult holds the discounted price, the full price
\* and the discount of one and the same accepted product, and that
\* product's link.
C5_SingleResultOfOneProduct ==
    (Reported /\ outcome.kind = "Single") =>
        \E p \in ToSet(accepted) :
            /\ outcome.discount_price = p.discount_price
            /\ outcome.full_price = p.full_price
            /\ outcome.discount = Discount(p)
            /\ outcome.link = p.link

\* stats are the extremes of the values, each with the link of an accepted
\* product that has the value for the metric
ExtremesOf(stats, values, Metric(_)) ==
    /\ stats.max = MaxOf(values)
    /\ stats.min = MinOf(values)
    /\ \E p \in ToSet(accepted) : Metric(p) = stats.max /\ p.link = stats.link_at_max
    /\ \E p \in ToSet(accepted) : Metric(p) = stats.min /\ p.link = stats.link_at_min

\* C6: in a reported Summary, for each metric the max and the min are the
\* maximum and the minimum of the metric over the accepted products that
\* have an entry for it, and link_at_max / link_at_min is the link of an
\* accepted product whose value is that max / min.
C6_SummaryExtremes ==
    (Reported /\ outcome.kind = "Summary") =>
        /\ ExtremesOf(outcome.full_price, FullPriceEntries, LAMBDA p : p.full_price)
        /\ ExtremesOf(outcome.discount_price, DiscountPriceEntries,
                      LAMBDA p : p.discount_price)
        /\ ExtremesOf(outcome.discount, DiscountEntries, Discount)

\* C6 witness: a Summary was reported whose maximum and minimum discounted
\* price come from different products.
C6_Witness ==
    /\ Reported /\ outcome.kind = "Summary"
    /\ outcome.discount_price.link_at_max # outcome.discount_price.link_at_min
    /\ outcome.full_price.max > outcome.full_price.min

\* floor(sum / count)
FloorMean(values) == SumSet(values) \div Cardinality(values)

\* C7: the mean a Summary reports for a metric is the floor of the sum of
\* the metric's entries divided by the number of those entries.
C7_SummaryMeanIsFloor ==
    (Reported /\ outcome.kind = "Summary") =>
        /\ outcome.full_price.middle = FloorMean(FullPriceEntries)
        /\ outcome.discount_price.middle = FloorMean(DiscountPriceEntries)
        /\ outcome.discount.middle = FloorMean(DiscountEntries)

\* C8: in each adapter a candidate passes the keyword match exactly when
\* every query token (query lower-cased, split on whitespace, then on
\* hyphens) equals some token of the name (name lower-cased, quotes
\* stripped, split on whitespace, then on hyphens).
C8_MatchIsTokenContainment ==
    mDone =>
        (mFlag <=> ToSet(hyphen_split_all(split(lower(mQuery))))
                     \subseteq
                   ToSet(hyphen_split_all(split(replace_quotes(lower(mName))))))

RECURSIVE SumSeq(_)
SumSeq(seq) == IF seq = <<>> THEN 0 ELSE Head(seq) + SumSeq(Tail(seq))

FactorOf(s) == IF s = OZON THEN 51 ELSE 41

\* The candidate that ran last matched the keywords and had a price
Filtered == last.verdict \in {"outlier", "accepted"}

\* C9 (as claimed): a matching candidate with discounted price d is rejected
\* by the outlier filter iff mean > 0 and d + factor * mean < mean, where
\* mean is sum / count of the discounted prices of all products accepted so
\* far (0 when none); with factor 0.5 and mean 100, 49 is rejected and 51
\* is accepted.  (Multiplied by 100 * count to stay in the integers.)
C9_RejectedBelowMeanOfAccepted ==
    /\ is_outlier(49, 100, 50) /\ ~is_outlier(51, 100, 50)
    /\ Filtered =>
          LET n   == Len(AcceptedBefore)
              sum == SumSeq([i \in 1..n |-> AcceptedBefore[i].discount_price])
          IN  (last.verdict = "outlier") <=>
                  (sum > 0 /\ 100 * n * last.d + FactorOf(shop) * sum < 100 * sum)

\* C9 (amended): ... iff mean > 0 and d + factor * mean < mean, where mean
\* is the integer part of sum / count of the distinct non-zero discounted
\* prices of the products accepted so far (0 when there is none).
C9_RejectedBelowMiddle ==
    /\ is_outlier(49, 100, 50) /\ ~is_outlier(51, 100, 50)
    /\ Filtered =>
          LET values == {AcceptedBefore[i].discount_price :
                            i \in 1..Len(AcceptedBefore)} \ {0}
              mean   == IF values = {} THEN 0
                        ELSE SumSet(values) \div Cardinality(values)
          IN  (last.verdict = "outlier") <=>
                  (mean > 0 /\ 100 * last.d + FactorOf(shop) * mean < 100 * mean)

\* C9 witness: a candidate was rejected as an outlier after two products
\* with the same discounted price and a third one were accepted.
C9_Witness ==
    /\ last.verdict = "outlier"
    /\ Len(accepted) = 3
    /\ accepted[1].discount_price > 0
    /\ accepted[1].discount_price = accepted[2].discount_price
    /\ accepted[3].discount_price # accepted[1].discount_price
    /\ last.d > 0

\* C10: Wildberries search pages are requested in increasing order starting
\* at 1, and once a page yielded zero keyword-matching products no page with
\* a higher number is requested.
C10_PagesInOrderUntilEmpty ==
    /\ requested # <<>> => requested[1] = 1
    /\ \A i \in 1..Len(requested) - 1 : requested[i] < requested[i + 1]
    /\ \A k \in emptyPages : \A i \in 1..Len(requested) : requested[i] <= k

\* C10 witness: the third page requested had no matching product, after a
\* page with a matching product and a page whose request failed.
C10_Witness ==
    /\ emptyPages = {3}
    /\ requested = <<1, 2, 3>>
    /\ Len(products_list) = 1
    /\ pc = "aggregate"

\* C11: in the Wildberries adapter, when the fetch of page k fails (the
\* request or the JSON decoding raises), no page with a number greater than
\* k is requested afterwards, and page k is requested only once.
C11_FailedFetchEndsPaging ==
    \A k \in failedPages :
        /\ \A i \in 1..Len(requested) : requested[i] <= k
        /\ Cardinality({i \in 1..Len(requested) : requested[i] = k}) = 1

\* Every page requested so far held at least one keyword-matching product
EveryPageYielded == emptyPages = {} /\ failedPages = {} /\ last.verdict # "broken"

\* C12: get_all_products_in_search_result iterates over the page numbers 1
\* to 100: when every page yields at least one matching product, the pages
\* requested by the end of the loop are 1 through 100, and page 101 is not
\* requested.
C12_PagesOneToHundred ==
    /\ \A i \in 1..Len(requested) : requested[i] # 101
    /\ (pc = "aggregate" /\ EveryPageYielded) => requested = [i \in 1..100 |-> i]

\* The fetch of the first search page failed
FirstPageFailed == (shop = WB /\ 1 \in failedPages) \/ error = "first_page"

\* C13: a failure while fetching the very first search page is fatal in
\* every adapter: the session has terminated with a reported failure, no
\* further page is fetched, and nothing is parsed, aggregated or exported.
C13_FirstPageFailureIsFatal ==
    FirstPageFailed =>
        /\ pc = "returned" /\ error = "first_page"
        /\ \A i \in 1..Len(requested) : requested[i] = 1
        /\ accepted = <<>> /\ products_list = <<>>
        /\ outcome.kind = "none" /\ artifact = "none"

\* run_parser is over: it returned at its end, returned early, or an
\* exception left it
Ended == pc \in {"done", "returned", "raised"}

\* The final messages (a terminal outcome or a failure message) in the chat
FinalMessages == SelectSeq(chat, LAMBDA m : m \notin Progress)

\* C14: a session started from the chat bot delivers exactly one final
\* message to the chat, a terminal outcome (EmptyResult, SingleResult or
\* Summary) or a failure message: it never delivers two, and when it has
\* ended it has delivered one.
C14_ExactlyOneFinalMessage ==
    /\ Len(FinalMessages) <= 1
    /\ Ended => Len(FinalMessages) = 1

\* The candidate that ran last passed the keyword match, the price
\* extraction and the outlier filter
PassedFilters == last.verdict \in {"accepted", "enrichdrop"}

\* C15: enrichment is strictly additive: a candidate that passed keyword
\* matching, price extraction and the outlier filter is accepted (it is the
\* newest accepted product), whatever fails while its seller or id is
\* fetched or parsed.
C15_EnrichmentNeverDrops ==
    PassedFilters =>
        /\ last.verdict = "accepted"
        /\ accepted # <<>> /\ LastAccepted.discount_price = last.d

\* The sales-enrichment pass of Wildberries is over
SalesPassOver == shop = WB /\ pc \in {"export", "report", "remove", "done", "raised"}

\* C16: after the sales-enrichment pass of Wildberries, every product card
\* carries a sales field that is either the fetched count or the unknown
\* sentinel, whichever kind of failure hit any card's request.
C16_EveryCardHasSalesField ==
    SalesPassOver =>
        /\ Len(sales) = Len(products_list)
        /\ \A i \in 1..Len(sales) : sales[i] \in {QNT, NO_DATA}

\* C17: once a session has created its export artifact, the artifact file
\* is deleted by the time the session has ended, on every exit path,
\* including when sending the result or deleting the progress message
\* fails.
C17_ArtifactDeletedAtEnd ==
    (Ended /\ artifact # "none") => artifact = "deleted"

\* C18: in the rendered-page adapters, a browser driver that the session
\* has acquired is quit exactly once by the time the session has ended, on
\* every exit path (normal completion, first-page fetch failure, a failure
\* raised while parsing a page), and never more than once.
C18_DriverQuitExactlyOnce ==
    /\ quits <= 1
    /\ (Ended /\ driver # "none") => (driver = "quit" /\ quits = 1)

\* The progress notifications in the chat, in order
ProgressMessages == SelectSeq(chat, LAMBDA m : m \in Progress)

\* C19: a session emits at most two progress notifications, first "pages
\* loading" and then "processing items", each at most once and in that
\* order, however many candidates it processes.
C19_AtMostTwoProgressMessages ==
    \/ ProgressMessages = <<>>
    \/ ProgressMessages = <<LOADING>>
    \/ ProgressMessages = <<LOADING, PROCESSING>>

\* C20: apart from a first-page fetch failure, no parse or enrichment error
\* ends a session: neither a page without the results container nor an
\* unparsable item attribute makes an exception leave run_parser; the
\* session goes on to aggregation and a terminal outcome.
C20_NoParseErrorEscapes ==
    pc = "raised" => error # "parse"

----------------------------------------------------------------------------
(* Pages that fail to load, and the pagination control *)

Rendered == shop \in {OZON, YANDEX}

\* The numbers of the pages of pages_info that are loaded, in dict order
LoadedPages ==
    LET loaded == SelectSeq(pages_info, LAMBDA e : e.v)
    IN  [i \in 1..Len(loaded) |-> loaded[i].k]

\* The numbers of the discovered pages whose load failed
FailedLoads == {pages_info[i].k : i \in {j \in 1..Len(pages_info) : ~pages_info[j].v}}

\* The parsing loop of run_parser is over and no exception left it
ParsingOver ==
    \/ pc \in {"aggregate", "export", "report", "remove", "done"}
    \/ pc = "raised" /\ error \in {"summarize", "deliver"}

\* C21: in the rendered-page adapters a further results page whose load
\* fails is the only page left out: a failed load changes nothing but the
\* position in the loading loop, and once the parsing loop is over every page
\* that did load was given to parse_page_content, in order, no page that
\* did not load was, every accepted product is a result row, and a session
\* that ended past the parsing loop has its terminal outcome.
C21_FailedLoadOnlyOmitsThatPage ==
    Rendered =>
        /\ pc \in {"load_pages", "parse_pages", "parse"} => error = "none"
        /\ ParsingOver =>
               /\ parsed = LoadedPages
               /\ products_list = accepted
        /\ pc = "done" => outcome.kind \in Finals

C21_PageThreeParsedAfterPageTwoFailed ==
    /\ Rendered
    /\ pc = "done"
    /\ outcome.kind = "Summary"
    /\ FailedLoads = {2}
    /\ loads = <<2, 3>>
    /\ parsed = <<1, 3>>
    /\ Len(accepted) = 2

\* The control of the first page names no further page: there is none, it
\* is malformed, or none of its entries is a page number above 1
NoFurtherPage ==
    \/ control.kind # "links"
    \/ \A i \in 1..Len(control.nums) : control.nums[i] <= 1

\* The first page was loaded and its control was read
Discovered ==
    Rendered /\ pc \notin {"idle", "first_page", "returned"}

\* C22: in the rendered-page adapters, when the first page has no
\* pagination control, a malformed one, or one that lists no further page,
\* the pages of the session are the one first page, which is loaded, and
\* the loading loop fetches no further results page.
C22_NoControlYieldsTheFirstPageOnly ==
    (Discovered /\ NoFurtherPage) =>
        /\ Len(pages_info) = 1
        /\ pages_info[1].k = 1
        /\ pages_info[1].v
        /\ loads = <<>>

C22_SinglePageSessionParsed ==
    /\ Discovered
    /\ control = [kind |-> "links", nums |-> <<1>>]
    /\ pc = "done"
    /\ parsed = <<1>>
    /\ loads = <<>>
    /\ Len(accepted) = 1

----------------------------------------------------------------------------
(* The rows of the exported table *)

\* C23: at export time the rows of the table are exactly the accepted
\* products, one row for every product that put an entry into the price
\* distributions and no other row, and the artifact is written whatever the
\* number of rows, zero included.
C23_RowsAreTheAcceptedProducts ==
    /\ pc \in {"export", "report"} => products_list = accepted
    /\ pc = "report" => artifact = "exists"

----------------------------------------------------------------------------
(* Price tokens *)

\* The listing has fewer than two numeric price tokens, or a token that is
\* no number after cleaning
TooFewOrBadTokens(tokens) ==
    \/ Cardinality({i \in 1..Len(tokens) : tokens[i] # NaN}) < 2
    \/ \E i \in 1..Len(tokens) : tokens[i] = NaN

\* C24: a candidate whose listing has fewer than two numeric price tokens,
\* or a token that is no number, is dropped: the iteration of the candidate
\* loop that handles it accepts nothing, adds no entry to a distribution
\* and no row, and the loop goes on with the next candidate.
C24_TooFewOrBadTokensDropped ==
    [][\A c \in RunCandidates :
          (TooFewOrBadTokens(c.tokens) /\ c.index = "ok" /\ parse_page_content(c)) =>
              /\ UNCHANGED <<full_prices_list, discount_prices_list, discounts_list,
                             products_list, accepted>>
              /\ pc' = "parse"]_vars

----------------------------------------------------------------------------
(* A candidate that fails *)

\* The products that have a row, or will have one when the page is done
RowsSoFar ==
    LET rows == products_list \o products_on_page
    IN  {rows[i] : i \in 1..Len(rows)}

\* C25: a failure on a single candidate drops only that candidate: the
\* loop over the candidates of the page goes on, so that the later
\* well-formed candidates of the page are still handled, and nothing
\* recorded for the earlier candidates is lost, so that every product
\* accepted so far keeps its row.
C25_FailedCandidateDropsOnlyItself ==
    last.verdict \in {"broken", "raised"} =>
        /\ pc \in {"wb_page", "parse"}
        /\ \A i \in 1..Len(accepted) : accepted[i] \in RowsSoFar

----------------------------------------------------------------------------
(* The order of the phases of a session *)

\* The phases of run_parser in the order of its text: loading the first
\* results page, loading the further pages, the parsing loop (with the page
\* requests of Wildberries, which asks for page n + 1 after it handled page
\* n), the statistics, the sales requests, the export, the delivery, the
\* removal of the table
Phase(p) ==
    CASE p = "idle"                          -> 0
      [] p = "first_page"                    -> 1
      [] p = "load_pages"                    -> 2
      [] p \in {"parse_pages", "parse"}      -> 3
      [] p \in {"wb_loop", "wb_page"}        -> 3
      [] p = "aggregate"                     -> 4
      [] p = "sales"                         -> 5
      [] p = "export"                        -> 6
      [] p = "report"                        -> 7
      [] p = "remove"                        -> 8
      [] p \in {"done", "returned", "raised"} -> 9

distributions == <<full_prices_list, discount_prices_list, discounts_list>>

----------------------------------------------------------------------------
(* The outlier filter and the order of the candidates *)

\* The candidate loop of parse_page_content (ozon.py:84-89, 116-118,
\* yandexmarket.py:83-88, 115-117) on keyword-matching candidates cands,
\* each with its link and prices: the products it keeps, in order
RECURSIVE filter_from(_, _, _, _)
filter_from(cands, dpl, kept, percent) ==
    IF cands = <<>> THEN kept
    ELSE LET c == Head(cands)
         IN  IF is_outlier(c.discount_price, middle_discount_price(dpl), percent)
             THEN filter_from(Tail(cands), dpl, kept, percent)
             ELSE filter_from(Tail(cands),
                              record_discount_price(dpl, c.discount_price, c.link),
                              Append(kept, c), percent)

filter_run(cands, percent) == filter_from(cands, <<>>, <<>>, percent)

ProductsOf(seq) == {seq[i] : i \in 1..Len(seq)}

\* The candidate that the filter rejected last; its link is none of the
\* links of the accepted products
Rejected == Product(0, last.d, last.d)

\* C27: the outlier filter depends on the order of the candidates: there
\* are two orderings of the same keyword-matching candidates that end with
\* different sets of accepted products.  Whenever a session rejects a
\* candidate as an outlier, the candidates it has kept followed by the
\* rejected one are such a set: in the order of the session the loop keeps
\* what the session kept, and with the rejected candidate moved to the
\* front it keeps another set.
C27_FilterDependsOnOrder ==
    (Rendered /\ last.verdict = "outlier") =>
        /\ ProductsOf(filter_run(Append(accepted, Rejected), FactorOf(shop)))
               = ProductsOf(accepted)
        /\ ProductsOf(filter_run(<<Rejected>> \o accepted, FactorOf(shop)))
               # ProductsOf(accepted)

C27_CheapAfterDearRejected ==
    /\ Rendered
    /\ last = Verdict("outlier", 1)
    /\ Len(accepted) = 1
    /\ accepted[1].discount_price = MaxPrice
    /\ Rejected \in ProductsOf(filter_run(<<Rejected>> \o accepted, FactorOf(shop)))

----------------------------------------------------------------------------
(* The link kept for a value that several products share *)

full_price_of(p)     == p.full_price
discount_price_of(p) == p.discount_price
discount_of(p)       == p.full_price - p.discount_price

\* The positions in accepted of the products whose metric has the value v
WithValue(metric(_), v) == {i \in 1..Len(accepted) : metric(accepted[i]) = v}

\* Every entry of the distribution d of a metric has the link of the product
\* accepted last among those with the entry's value
LastLinkWins(d, metric(_)) ==
    \A e \in 1..Len(d) :
        /\ WithValue(metric, d[e].k) # {}
        /\ d[e].v = accepted[MaxOf(WithValue(metric, d[e].k))].link

\* C28: after any sequence of accepted products, for every metric and every
\* value v in the metric's distribution, the link stored under v is the
\* link of the product accepted most recently among those whose value for
\* the metric is v; an earlier product with the same value has no entry of
\* its own.
C28_LaterLinkWins ==
    /\ LastLinkWins(full_prices_list, full_price_of)
    /\ LastLinkWins(discount_prices_list, discount_price_of)
    /\ LastLinkWins(discounts_list, discount_of)

C28_TwoProductsShareAPrice ==
    /\ Len(accepted) = 2
    /\ accepted[1].discount_price = accepted[2].discount_price
    /\ accepted[1].discount_price > 0
    /\ accepted[1].link # accepted[2].link
    /\ Len(discount_prices_list) = 1
    /\ discount_prices_list[1].v = accepted[2].link

----------------------------------------------------------------------------
(* The distributions that the statistics read *)

\* run_parser is at the statistics and takes the Summary or the Single
\* branch: len(self.discount_prices_list) >= 1
TakesSummaryOrSingle == pc = "report" /\ Len(discount_prices_list) >= 1

\* C29: whenever run_parser takes the Summary or the Single branch, each of
\* the three distributions it reads is non-empty, so that max, min, the
\* mean and the first key never fail, also when every accepted product has
\* a zero discount.
C29_BranchReadsNonEmptyDistributions ==
    /\ TakesSummaryOrSingle =>
           /\ full_prices_list # <<>>
           /\ discount_prices_list # <<>>
           /\ discounts_list # <<>>
    /\ error # "summarize"

----------------------------------------------------------------------------
(* The table files of two tasks that run in one process *)

TaskShops   == {WB, OZON}
TaskQueries == {<<"a">>, <<"b">>}

\* wildberries.py:254-255: directory/key_word_<run_date %Y-%m-%d>.xlsx, with
\* run_date = date.today() of __init__; all tasks of the model run on one day
wb_table_path(key_word) == [key_word |-> key_word, time |-> NoTime]

\* ozon.py:172, 133 and yandexmarket.py:162, 125:
\* key_word_<dt.now() %Y-%m-%d-%H-%M-%S>.xlsx
rendered_table_path(key_word, second) == [key_word |-> key_word, time |-> second]

\* remove(table_path): the file is gone, whoever wrote it
remove(fs, table_path) == SelectSeq(fs, LAMBDA f : f.k # table_path)

\* handle_shop: Parser(call), await parser.run_parser(key_words)
start_task(t, s, key_word) ==
    /\ tasks[t].pc = "idle"
    /\ tasks' = [tasks EXCEPT ![t] = [NoTask EXCEPT !.pc = "running", !.shop = s,
                                                    !.key_word = key_word]]
    /\ UNCHANGED <<files, now>>

\* table_path = save_to_excel(...): the file is written, over a file of the
\* same path if there is one
task_save_to_excel(t) ==
    /\ tasks[t].pc = "running"
    /\ LET table_path == IF tasks[t].shop = WB
                         THEN wb_table_path(tasks[t].key_word)
                         ELSE rendered_table_path(tasks[t].key_word, now)
       IN  /\ tasks' = [tasks EXCEPT ![t].pc = "saved", ![t].table_path = table_path]
           /\ files' = dict_set(files, table_path, t)
    /\ UNCHANGED now

\* await answer_document(document=FSInputFile(path=table_path)) and
\* await message.delete(): the file at table_path is read while the task
\* waits for the network; when there is no such file the exception leaves
\* run_parser.  In the Empty branch (document = FALSE) a text is sent and no
\* file is read.
task_answer(t, document) ==
    /\ tasks[t].pc = "saved"
    /\ IF ~document
       THEN tasks' = [tasks EXCEPT ![t].pc = "sent"]
       ELSE IF tasks[t].table_path \in keys(files)
       THEN tasks' = [tasks EXCEPT ![t].pc = "sent",
                                   ![t].got = dict_get(files, tasks[t].table_path)]
       ELSE tasks' = [tasks EXCEPT ![t].pc = "raised"]
    /\ UNCHANGED <<files, now>>

\* try: remove(table_path) except Exception: pass
task_remove(t) ==
    /\ tasks[t].pc = "sent"
    /\ tasks' = [tasks EXCEPT ![t].pc = "done"]
    /\ files' = remove(files, tasks[t].table_path)
    /\ UNCHANGED now

\* A second passes
tick ==
    /\ now < MaxSecond
    /\ now' = now + 1
    /\ UNCHANGED <<tasks, files>>

NextTasks ==
    \/ \E t \in Tasks, s \in TaskShops, q \in TaskQueries :
           start_task(t, s, q) /\ UNCHANGED <<botVars, matchVars, sessVars, scrollVars>>
    \/ \E t \in Tasks : task_save_to_excel(t) /\ UNCHANGED <<botVars, matchVars, sessVars, scrollVars>>
    \/ \E t \in Tasks, document \in BOOLEAN :
           task_answer(t, document) /\ UNCHANGED <<botVars, matchVars, sessVars, scrollVars>>
    \/ \E t \in Tasks : task_remove(t) /\ UNCHANGED <<botVars, matchVars, sessVars, scrollVars>>
    \/ tick /\ UNCHANGED <<botVars, matchVars, sessVars, scrollVars>>

SpecTasks == Init /\ [][NextTasks]_vars

\* The task has written its table and has not yet removed it
HoldsTable(t) == tasks[t].pc \in {"saved", "sent"}

\* C30: two sessions that run concurrently never use the same table path:
\* from the moment a session has written its table until it has delivered
\* and removed it, the file is there and is the one this session wrote, also
\* when both sessions search the same keyword on the same day or in the
\* same second.
C30_TablePathsNeverShared ==
    /\ \A t \in Tasks, u \in Tasks :
           (t # u /\ HoldsTable(t) /\ HoldsTable(u)) =>
               tasks[t].table_path # tasks[u].table_path
    /\ \A t \in Tasks :
           HoldsTable(t) =>
               /\ tasks[t].table_path \in keys(files)
               /\ dict_get(files, tasks[t].table_path) = t
    /\ \A t \in Tasks : tasks[t].pc # "raised" /\ tasks[t].got \in {"", t}

----------------------------------------------------------------------------
(* bot.py: a button of any keyboard in the chat *)

\* handle_shop as the dispatcher calls it: for a callback of any keyboard in
\* the user's chat, also one that an earlier run of the bot has sent, so
\* that this process may have received no query message of the user, or
\* none at all
handle_shop_of_any_keyboard(u, s) ==
    /\ Len(sessions) < MaxSessions
    /\ sessions' = Append(sessions,
                          [user |-> u, shop |-> s, key_word |-> key_words_global,
                           own |-> sent[u]])
    /\ UNCHANGED <<key_words_global, sent>>

\* if not key_word: self.key_word = input(...)
reaches_input(key_word) == key_word = ""

NextCallbacks ==
    \/ \E u \in Users, t \in Texts :
           handle_product_description(u, t)
               /\ UNCHANGED <<sessVars, matchVars, taskVars, scrollVars>>
    \/ \E u \in Users, s \in Shops :
           handle_shop_of_any_keyboard(u, s)
               /\ UNCHANGED <<sessVars, matchVars, taskVars, scrollVars>>

SpecCallbacks == Init /\ [][NextCallbacks]_vars

\* C31: a session started from a callback of the bot never waits for
\* console input: in every order of the bot's events, a button pressed
\* before the process received any query message included, run_parser is
\* given a non-empty query and does not reach its input() prompt.
C31_NoSessionReachesInput ==
    \A i \in 1..Len(sessions) : ~reaches_input(sessions[i].key_word)

----------------------------------------------------------------------------
(* get_html_of_the_page: the scroll loop, for each results page of a session *)

\* What a page can be: one that reaches the height full and then stays,
\* and one whose height grows with every scroll
Bodies == {[full |-> h, endless |-> FALSE] : h \in 1..MaxHeight}
              \cup {[full |-> 0, endless |-> TRUE]}

\* The heights that document.body.scrollHeight can return after a scroll,
\* when it returned last before: an endless page has grown; a settling page
\* has grown by some amount up to its full height, or not at all
heights_after(b, height) ==
    IF b.endless THEN {height + 1}
    ELSE {h \in 1..MaxHeight : height <= h /\ h <= b.full}

\* Heights from MaxHeight on are kept as MaxHeight
kept_height(h) == IF h > MaxHeight THEN MaxHeight ELSE h

break_never(new_height, height) == FALSE

\* if new_height == last_height: break
break_loop(new_height, height) == new_height = height

\* run_parser starts to load the n results pages of the session
begin_loading(n) ==
    /\ scroll_pc = "idle"
    /\ to_load' = n
    /\ loading' = 1
    /\ scroll_pc' = "get"
    /\ UNCHANGED <<body, last_height>>

\* get_html_of_the_page has returned or raised; the loading loop of
\* run_parser takes the next page
after_page(p) == IF p < to_load THEN [scroll_pc |-> "get", loading |-> p + 1]
                 ELSE [scroll_pc |-> "loaded", loading |-> p]

\* self.driver.get(url) and last_height = execute_script(scrollHeight);
\* when the load fails the exception leaves get_html_of_the_page
driver_get(b, r) ==
    /\ scroll_pc = "get"
    /\ IF r = "ok"
       THEN /\ body' = b
            /\ last_height' = 1
            /\ scroll_pc' = "scroll"
            /\ UNCHANGED loading
       ELSE /\ scroll_pc' = after_page(loading).scroll_pc
            /\ loading' = after_page(loading).loading
            /\ UNCHANGED <<body, last_height>>
    /\ UNCHANGED to_load

\* execute_script("window.scrollTo(0, document.body.scrollHeight);") and
\* time.sleep(SCROLL_PAUSE_TIME)
scroll_to ==
    /\ scroll_pc = "scroll"
    /\ scroll_pc' = "measure"
    /\ UNCHANGED <<to_load, loading, body, last_height>>

\* new_height = execute_script(scrollHeight); break or last_height = new_height
measure(new_height) ==
    /\ scroll_pc = "measure"
    /\ new_height \in heights_after(body, last_height)
    /\ IF break_loop(new_height, last_height)
       THEN /\ scroll_pc' = after_page(loading).scroll_pc
            /\ loading' = after_page(loading).loading
            /\ UNCHANGED last_height
       ELSE /\ last_height' = kept_height(new_height)
            /\ scroll_pc' = "scroll"
            /\ UNCHANGED loading
    /\ UNCHANGED <<to_load, body>>

scrollOthers == <<botVars, taskVars, matchVars, sessVars>>

NextScroll ==
    \/ \E n \in 1..MaxPages : begin_loading(n) /\ UNCHANGED scrollOthers
    \/ \E b \in Bodies, r \in {"ok", "fail"} : driver_get(b, r) /\ UNCHANGED scrollOthers
    \/ scroll_to /\ UNCHANGED scrollOthers
    \/ \E h \in 1..(MaxHeight + 1) : measure(h) /\ UNCHANGED scrollOthers

\* Every call of the driver returns or raises, so the loop goes on
SpecScroll == Init /\ [][NextScroll]_vars /\ WF_vars(NextScroll)

\* C32 as stated: the pages of a session get loaded, whatever the pages
\* are: the scroll loop of get_html_of_the_page ends after finitely many
\* scroll attempts for every page, also for a page whose height grows on
\* every attempt, and the loop over the pages is bounded.
C32_LoadingAlwaysEnds == <>(scroll_pc = "loaded")

\* An endless page is in the driver
EndlessPage == scroll_pc \in {"scroll", "measure"} /\ body.endless

\* C32, amended: the loop over the pages is bounded, and the scroll loop
\* ends for every page whose height stops growing after finitely many
\* scroll attempts: unless the session meets a page whose height grows on
\* every attempt, its pages get loaded.
C32_LoadingEndsUnlessAPageGrowsForever ==
    <>(scroll_pc = "loaded" \/ EndlessPage)

C32_LastPageScrolledToItsFullHeight ==
    /\ scroll_pc = "loaded"
    /\ to_load = MaxPages
    /\ loading = MaxPages
    /\ ~body.endless
    /\ body.full = MaxHeight
    /\ last_height = MaxHeight

====
